---- MODULE Spec2Model ----
(***************************************************************************)
(* FundManagerEngine (src/unnamed/part_009, lines 756-1117): the pyramid   *)
(* position-management engine of alphasight-fund.                          *)
(*                                                                         *)
(* Numbers.  Prices are positive integers.  avgCost and roi are exact      *)
(* rationals, kept as a normalised pair <<numerator, denominator>>.        *)
(* Fractions of the source (0.10, 0.08, 0.15 ...) are written in percent,  *)
(* and a comparison  x / y >= t  of the source is computed as              *)
(* 100 * x >= t * y.  Dates 'YYYY-MM-DD' are day numbers; new Date(d)      *)
(* .getTime() is d * MsPerDay.  null and undefined are the empty tuple,    *)
(* a present value v is <<v>>.                                             *)
(*                                                                         *)
(* Arrays are references: state.operationHistory is an id into `arrays`,   *)
(* as the operationHistory array of the source is one object that          *)
(* recordOperation pushes to in place.                                     *)
(***************************************************************************)
EXTENDS Integers, Sequences, FiniteSets, TLC

VARIABLES
    state,      \* FundManagerEngine.state (this.state)
    arrays,     \* the heap of operationHistory arrays: id -> sequence of records
    signal,     \* the TradingSignal the last evaluate_market call returned
    executed,   \* host bookkeeping: whether the host executed that signal's trade
    fired,      \* host bookkeeping: the tiers of the SELL signals the host has
                \* executed since the position was opened, in order
    lastOp,     \* bookkeeping of the free host: the method it called last
    snapshot,   \* the object the last getState() call returned, <<>> before it
    snapshotHistory,
                \* bookkeeping: what that object's operationHistory held when
                \* getState() returned
    copy,       \* this.state of the engine that loadState(getState()) was
                \* called on, <<>> while there is none
    pending,    \* bookkeeping: the calls made on the first engine and not yet
                \* on the second, each evaluate_market with the signal it returned
    fundInfoQueue,
                \* fundInfoQueue of the JSONP fetchFundInfo: the task whose
                \* settling fulfils it, 0 for Promise.resolve()
    jsonpgz,    \* window.jsonpgz: the task whose handler it is, 0 for undefined
    tasks       \* the fetchFundInfo calls made, in order: each call's task

\* The page's JSONP state, which no engine method touches.
jsonpVars == <<fundInfoQueue, jsonpgz, tasks>>

\* The engine and its hosts, which fetchFundInfo does not touch.
engineVars == <<state, arrays, signal, executed, fired, lastOp, snapshot,
                snapshotHistory, copy, pending>>

vars == <<state, arrays, signal, executed, fired, lastOp, snapshot, snapshotHistory,
          copy, pending, fundInfoQueue, jsonpgz, tasks>>

\* What the signal-following host leaves alone.
freeVars == <<lastOp, snapshot, snapshotHistory, copy, pending, jsonpVars>>

----------------------------------------------------------------------------
(* Bounds of the model and the inputs the host draws from.                 *)

\* Records the operationHistory may hold: in a run where the host also sets
\* logicStatus, and in a run where the thesis stays valid.
MaxHistory == 2
MaxValidHistory == 4

\* Records the operationHistory may hold in the shorter run of the same host,
\* under which the per-call properties of evaluate_market and executeBuy are
\* checked.
MaxShortHistory == 3

\* Records the operationHistory may hold in the run under which the
\* pyramid's levels are followed to the top, and the moving average and
\* the dates of that run.
MaxPyramidHistory == 4
PyramidMA20s == {90}
PyramidDates == {1, 15}

\* fetchFundInfo calls the page may make, and the fund codes it asks for.
MaxCalls == 2
FundCodes == {"000001", "000002"}

\* Records the operationHistory may hold in a run of the free host.
MaxFreeHistory == 5

\* Records the first engine may append in a run with a second engine, and
\* the calls the second engine may be behind the first.
MaxCopyHistory == 2
MaxPending == 2

\* What the host calls evaluate_market with once there are two engines.
CopyPrices == {80, 120}
CopyMA20s == {90}
CopyDates == {15}

\* Records the operationHistory may hold in a run where the free host
\* takes a snapshot.
MaxSnapHistory == 3

\* What the free host calls the engine with: the unit counts, price and
\* date of its execute calls, and the inputs of its evaluate_market calls.
FreeUnits == {0, 9}
FreeTradePrices == {100}
FreeTradeDates == {1}
FreePrices == {80, 120}
FreeMA20s == {90}
FreeDates == {15}

\* What the host calls evaluate_market with.
Prices == {64, 80, 100, 120}
MA20s == {90, 110}
Dates == {1, 14, 15}
TradeDates == {1, 15}
DailyChanges == {<<>>, <<-7>>}

\* The inputs the properties range over, in every reachable state: the
\* host's inputs and the values on and next to the thresholds.
AllPrices == Prices \cup {89, 90, 92, 95, 104}
AllMA20s == MA20s
AllDates == Dates \cup {2}
AllDailyChanges == DailyChanges \cup {<<-8>>, <<-6>>}
Units == {0, 2, 3, 9}

----------------------------------------------------------------------------
(* Arithmetic helpers.                                                     *)

Null == <<>>

Abs(x) == IF x < 0 THEN -x ELSE x

Max(a, b) == IF a >= b THEN a ELSE b

Min(a, b) == IF a <= b THEN a ELSE b

RECURSIVE GCD(_, _)
GCD(a, b) == IF b = 0 THEN a ELSE GCD(b, a % b)

\* The rational n / d (d > 0) in lowest terms.
Ratio(n, d) ==
    IF n = 0 THEN <<0, 1>>
    ELSE LET g == GCD(Abs(n), d) IN <<n \div g, d \div g>>

Zero == <<0, 1>>

\* Math.ceil(n / d) for n >= 0, d > 0.
Ceil(n, d) == (n + d - 1) \div d

----------------------------------------------------------------------------
(* Constants of the source.                                                *)

COOLDOWN_DAYS == 14
TRAILING_STOP_RATIO == 8
BLACK_SWAN_DROP == 7
MsPerDay == 86400000

\* A schedule that buys 3 units on the move to level 2.
PYRAMID_CONFIG_heavy(level) ==
    CASE level = 0 -> [dropTrigger |-> 0, shares |-> 0, totalPosition |-> 0]
      [] level = 1 -> [dropTrigger |-> 0, shares |-> 2, totalPosition |-> 20]
      [] level = 2 -> [dropTrigger |-> 10, shares |-> 3, totalPosition |-> 40]
      [] level = 3 -> [dropTrigger |-> 15, shares |-> 3, totalPosition |-> 70]
      [] level = 4 -> [dropTrigger |-> 20, shares |-> 3, totalPosition |-> 100]

\* dropTrigger in percent.
PYRAMID_CONFIG(level) ==
    CASE level = 0 -> [dropTrigger |-> 0, shares |-> 0, totalPosition |-> 0]
      [] level = 1 -> [dropTrigger |-> 0, shares |-> 2, totalPosition |-> 20]
      [] level = 2 -> [dropTrigger |-> 10, shares |-> 2, totalPosition |-> 40]
      [] level = 3 -> [dropTrigger |-> 15, shares |-> 3, totalPosition |-> 70]
      [] level = 4 -> [dropTrigger |-> 20, shares |-> 3, totalPosition |-> 100]

\* roiThreshold and sellRatio in percent.
PROFIT_TAKING_CONFIG ==
    << [roiThreshold |-> 15, sellRatio |-> 20],
       [roiThreshold |-> 30, sellRatio |-> 30],
       [roiThreshold |-> 50, sellRatio |-> 20] >>

daysBetween(date1, date2) ==
    LET d1 == date1 * MsPerDay
        d2 == date2 * MsPerDay
        diffMs == Abs(d2 - d1)
    IN diffMs \div MsPerDay

----------------------------------------------------------------------------
(* The engine.  Each method is an operator over the engine's state record  *)
(* s and the contents h of its operationHistory array.                     *)

\* A TradingSignal.  reason is the message's template and the number it
\* reports; tier is the roiThreshold of the PROFIT_TAKING_CONFIG entry a
\* SELL signal was returned for (0 otherwise); roi is <<>> when absent.
Signal(action, shares, kind, n, tier, roi, pyramidLevel) ==
    [action |-> action, shares |-> shares, reason |-> [kind |-> kind, n |-> n],
     tier |-> tier, roi |-> roi, pyramidLevel |-> pyramidLevel]

NoSignal == Signal("NONE", 0, "none", 0, 0, <<>>, 0)

\* A calculateROI that guards avgCost = 0 only.
calculateROI_noPositionGuard(s, currentPrice) ==
    IF s.avgCost = Zero THEN Zero
    ELSE Ratio(currentPrice * s.avgCost[2] - s.avgCost[1], s.avgCost[1])

\* this.state.avgCost === 0 || this.state.positionSize === 0 gives 0.
calculateROI(s, currentPrice) ==
    IF s.avgCost = Zero \/ s.positionSize = 0 THEN Zero
    ELSE Ratio(currentPrice * s.avgCost[2] - s.avgCost[1], s.avgCost[1])

\* The threshold one SELL record maps to: the first config, in order, with
\* roi >= roiThreshold - 0.01, else 0.
RECURSIVE executedLevelOf(_, _, _)
executedLevelOf(s, op, i) ==
    IF i > Len(PROFIT_TAKING_CONFIG) THEN 0
    ELSE LET config == PROFIT_TAKING_CONFIG[i]
             num == op.price * s.avgCost[2] - s.avgCost[1]
             den == s.avgCost[1]
             \* (op.price - avgCost) / avgCost >= roiThreshold - 0.01;
             \* with avgCost = 0 the quotient is Infinity, or NaN for price 0
             meets == IF den = 0 THEN num > 0
                      ELSE 100 * num >= (config.roiThreshold - 1) * den
         IN IF meets THEN config.roiThreshold
            ELSE executedLevelOf(s, op, i + 1)

RECURSIVE getExecutedProfitTakingLevels(_, _)
getExecutedProfitTakingLevels(s, h) ==
    IF h = <<>> THEN <<>>
    ELSE LET op == Head(h)
             rest == getExecutedProfitTakingLevels(s, Tail(h))
             v == executedLevelOf(s, op, 1)
         IN IF op.action = "SELL" /\ v > 0 THEN <<v>> \o rest ELSE rest

includes(seq, v) == \E i \in 1..Len(seq) : seq[i] = v

\* A cooldown that still blocks on day COOLDOWN_DAYS.
inCooldown_inclusive(lastOpDate, currentDate) ==
    lastOpDate # Null /\ daysBetween(lastOpDate[1], currentDate) <= COOLDOWN_DAYS

\* lastOpDate && daysBetween(lastOpDate, currentDate) < COOLDOWN_DAYS
inCooldown(lastOpDate, currentDate) ==
    lastOpDate # Null /\ daysBetween(lastOpDate[1], currentDate) < COOLDOWN_DAYS

\* A drop test that misses a drop of exactly dropTrigger.
dropTriggered_strict(lastBuyPrice, currentPrice, dropTrigger) ==
    IF lastBuyPrice > 0
    THEN 100 * (lastBuyPrice - currentPrice) > dropTrigger * lastBuyPrice
    ELSE lastBuyPrice = 0 /\ currentPrice < 0

\* dropFromLastBuy >= dropTrigger, with dropFromLastBuy =
\* (lastBuyPrice - currentPrice) / lastBuyPrice.  When lastBuyPrice = 0 the
\* quotient is -Infinity for a positive currentPrice and NaN for
\* currentPrice = 0, neither of which is >= dropTrigger, and +Infinity for a
\* negative currentPrice, which is.
dropTriggered(lastBuyPrice, currentPrice, dropTrigger) ==
    IF lastBuyPrice > 0
    THEN 100 * (lastBuyPrice - currentPrice) >= dropTrigger * lastBuyPrice
    ELSE lastBuyPrice = 0 /\ currentPrice < 0

\* An evaluateDefensive that opens with the share count of the current level.
evaluateDefensive_openAtLevel0(s, currentPrice, currentDate) ==
    LET pyramidLevel == s.pyramidLevel
        lastBuyPrice == s.lastBuyPrice
        lastOpDate == s.lastOpDate
    IN
    IF inCooldown(lastOpDate, currentDate)
    THEN Signal("HOLD", 0, "cooldown",
                COOLDOWN_DAYS - daysBetween(lastOpDate[1], currentDate),
                0, <<>>, pyramidLevel)
    ELSE IF pyramidLevel = 0
    THEN Signal("BUY", PYRAMID_CONFIG(pyramidLevel).shares, "open", 1, 0, <<>>, 1)
    ELSE IF pyramidLevel = 4
    THEN Signal("HOLD", 0, "full", 0, 0, <<>>, pyramidLevel)
    ELSE
    LET nextLevel == pyramidLevel + 1
        nextConfig == PYRAMID_CONFIG(nextLevel)
    IN IF dropTriggered(lastBuyPrice, currentPrice, nextConfig.dropTrigger)
       THEN Signal("BUY", nextConfig.shares, "add", nextLevel, 0, <<>>, nextLevel)
       ELSE Signal("HOLD", 0, "wait_drop", nextLevel, 0,
                   calculateROI(s, currentPrice), pyramidLevel)

\* An evaluateDefensive that keeps adding at level 4.
evaluateDefensive_buysWhenFull(s, currentPrice, currentDate) ==
    LET pyramidLevel == s.pyramidLevel
        lastBuyPrice == s.lastBuyPrice
        lastOpDate == s.lastOpDate
    IN
    IF inCooldown(lastOpDate, currentDate)
    THEN Signal("HOLD", 0, "cooldown",
                COOLDOWN_DAYS - daysBetween(lastOpDate[1], currentDate),
                0, <<>>, pyramidLevel)
    ELSE IF pyramidLevel = 0
    THEN Signal("BUY", PYRAMID_CONFIG(1).shares, "open", 1, 0, <<>>, 1)
    ELSE
    LET nextLevel == Min(4, pyramidLevel + 1)
        nextConfig == PYRAMID_CONFIG(nextLevel)
    IN IF dropTriggered(lastBuyPrice, currentPrice, nextConfig.dropTrigger)
       THEN Signal("BUY", nextConfig.shares, "add", nextLevel, 0, <<>>, nextLevel)
       ELSE Signal("HOLD", 0, "wait_drop", nextLevel, 0,
                   calculateROI(s, currentPrice), pyramidLevel)

evaluateDefensive(s, currentPrice, currentDate) ==
    LET pyramidLevel == s.pyramidLevel
        lastBuyPrice == s.lastBuyPrice
        lastOpDate == s.lastOpDate
    IN
    IF inCooldown(lastOpDate, currentDate)
    THEN Signal("HOLD", 0, "cooldown",
                COOLDOWN_DAYS - daysBetween(lastOpDate[1], currentDate),
                0, <<>>, pyramidLevel)
    ELSE IF pyramidLevel = 0
    THEN Signal("BUY", PYRAMID_CONFIG(1).shares, "open", 1, 0, <<>>, 1)
    ELSE IF pyramidLevel = 4
    THEN Signal("HOLD", 0, "full", 0, 0, <<>>, pyramidLevel)
    ELSE
    LET nextLevel == pyramidLevel + 1
        nextConfig == PYRAMID_CONFIG(nextLevel)
    IN IF dropTriggered(lastBuyPrice, currentPrice, nextConfig.dropTrigger)
       THEN Signal("BUY", nextConfig.shares, "add", nextLevel, 0, <<>>, nextLevel)
       ELSE Signal("HOLD", 0, "wait_drop", nextLevel, 0,
                   calculateROI(s, currentPrice), pyramidLevel)

\* A trailing stop that misses a drawdown of exactly TRAILING_STOP_RATIO.
trailingStop_strict(peakPrice, currentPrice) ==
    /\ peakPrice > 0
    /\ 100 * (peakPrice - currentPrice) > TRAILING_STOP_RATIO * peakPrice

\* drawdown >= TRAILING_STOP_RATIO, with drawdown =
\* (peakPrice - currentPrice) / peakPrice: NaN or -Infinity when peakPrice = 0.
trailingStop(peakPrice, currentPrice) ==
    /\ peakPrice > 0
    /\ 100 * (peakPrice - currentPrice) >= TRAILING_STOP_RATIO * peakPrice

\* An evaluateOffensive that rounds the shares to sell down (floor for ceil).
evaluateOffensive_floorShares(s, h, currentPrice, ma20, roi) ==
    LET positionSize == s.positionSize
        peakPrice == s.peakPrice
        pyramidLevel == s.pyramidLevel
        stop == trailingStop(peakPrice, currentPrice)
        executedROIs == getExecutedProfitTakingLevels(s, h)
        fires(i) == LET config == PROFIT_TAKING_CONFIG[i]
                    IN 100 * roi[1] >= config.roiThreshold * roi[2]
                       /\ ~includes(executedROIs, config.roiThreshold)
        firing == {i \in 1..Len(PROFIT_TAKING_CONFIG) : fires(i)}
    IN
    IF stop /\ positionSize > 0
    THEN Signal("SELL_ALL", positionSize \div 10, "trailing_stop", 0, 0, roi, pyramidLevel)
    ELSE IF currentPrice < ma20 /\ positionSize > 0
    THEN Signal("HOLD", 0, "below_ma20", 0, 0, roi, pyramidLevel)
    ELSE IF firing # {}
    THEN LET i == CHOOSE k \in firing : \A j \in firing : k <= j
             config == PROFIT_TAKING_CONFIG[i]
             sharesToSell == (positionSize * config.sellRatio) \div 1000
         IN Signal("SELL", sharesToSell, "profit_taking", config.sellRatio,
                   config.roiThreshold, roi, pyramidLevel)
    ELSE Signal("HOLD", 0, "holding", 0, 0, roi, pyramidLevel)

\* An evaluateOffensive that takes profit before it looks at the moving average.
evaluateOffensive_profitFirst(s, h, currentPrice, ma20, roi) ==
    LET positionSize == s.positionSize
        peakPrice == s.peakPrice
        pyramidLevel == s.pyramidLevel
        stop == trailingStop(peakPrice, currentPrice)
        executedROIs == getExecutedProfitTakingLevels(s, h)
        fires(i) == LET config == PROFIT_TAKING_CONFIG[i]
                    IN 100 * roi[1] >= config.roiThreshold * roi[2]
                       /\ ~includes(executedROIs, config.roiThreshold)
        firing == {i \in 1..Len(PROFIT_TAKING_CONFIG) : fires(i)}
    IN
    IF stop /\ positionSize > 0
    THEN Signal("SELL_ALL", positionSize \div 10, "trailing_stop", 0, 0, roi, pyramidLevel)
    ELSE IF firing # {}
    THEN LET i == CHOOSE k \in firing : \A j \in firing : k <= j
             config == PROFIT_TAKING_CONFIG[i]
             sharesToSell == Ceil(positionSize * config.sellRatio, 1000)
         IN Signal("SELL", sharesToSell, "profit_taking", config.sellRatio,
                   config.roiThreshold, roi, pyramidLevel)
    ELSE IF currentPrice < ma20 /\ positionSize > 0
    THEN Signal("HOLD", 0, "below_ma20", 0, 0, roi, pyramidLevel)
    ELSE Signal("HOLD", 0, "holding", 0, 0, roi, pyramidLevel)

evaluateOffensive(s, h, currentPrice, ma20, roi) ==
    LET positionSize == s.positionSize
        peakPrice == s.peakPrice
        pyramidLevel == s.pyramidLevel
        stop == trailingStop(peakPrice, currentPrice)
        executedROIs == getExecutedProfitTakingLevels(s, h)
        fires(i) == LET config == PROFIT_TAKING_CONFIG[i]
                    IN 100 * roi[1] >= config.roiThreshold * roi[2]
                       /\ ~includes(executedROIs, config.roiThreshold)
        firing == {i \in 1..Len(PROFIT_TAKING_CONFIG) : fires(i)}
    IN
    IF stop /\ positionSize > 0
    THEN Signal("SELL_ALL", positionSize \div 10, "trailing_stop", 0, 0, roi, pyramidLevel)
    ELSE IF currentPrice < ma20 /\ positionSize > 0
    THEN Signal("HOLD", 0, "below_ma20", 0, 0, roi, pyramidLevel)
    ELSE IF firing # {}
    THEN LET i == CHOOSE k \in firing : \A j \in firing : k <= j
             config == PROFIT_TAKING_CONFIG[i]
             sharesToSell == Ceil(positionSize * config.sellRatio, 1000)
         IN Signal("SELL", sharesToSell, "profit_taking", config.sellRatio,
                   config.roiThreshold, roi, pyramidLevel)
    ELSE Signal("HOLD", 0, "holding", 0, 0, roi, pyramidLevel)

\* A black-swan test that misses a drop of exactly BLACK_SWAN_DROP.
blackSwan_strict(dailyChange) ==
    dailyChange # <<>> /\ dailyChange[1] < -BLACK_SWAN_DROP

\* dailyChange !== undefined && dailyChange <= -BLACK_SWAN_DROP
blackSwan(dailyChange) ==
    dailyChange # <<>> /\ dailyChange[1] <= -BLACK_SWAN_DROP

\* A peak update that also tracks the price while the position is flat.
updatePeak_anyPosition(s, currentPrice) ==
    IF currentPrice > s.peakPrice
    THEN [s EXCEPT !.peakPrice = currentPrice]
    ELSE s

\* The peak update of evaluate_market.
updatePeak(s, currentPrice) ==
    IF currentPrice > s.peakPrice /\ s.positionSize > 0
    THEN [s EXCEPT !.peakPrice = currentPrice]
    ELSE s

\* An evaluate_market that tests the black swan before the thesis.
evaluate_market_blackSwanFirst(s, h, currentPrice, ma20, currentDate, dailyChange) ==
    IF blackSwan(dailyChange)
    THEN [signal |-> Signal("WAIT", 0, "black_swan", dailyChange[1], 0, <<>>,
                            s.pyramidLevel),
          state |-> s]
    ELSE IF ~s.logicStatus
    THEN [signal |-> Signal("SELL_ALL", s.positionSize \div 10, "logic_invalid", 0, 0,
                            <<>>, s.pyramidLevel),
          state |-> s]
    ELSE
    LET s1 == updatePeak(s, currentPrice)
        roi == calculateROI(s1, currentPrice)
    IN IF roi[1] > 0 /\ s1.positionSize > 0
       THEN [signal |-> evaluateOffensive(s1, h, currentPrice, ma20, roi), state |-> s1]
       ELSE [signal |-> evaluateDefensive(s1, currentPrice, currentDate), state |-> s1]

\* An evaluate_market that runs the offensive branch on every open
\* position, whatever its ROI.
evaluate_market_offensiveAtLoss(s, h, currentPrice, ma20, currentDate, dailyChange) ==
    IF ~s.logicStatus
    THEN [signal |-> Signal("SELL_ALL", s.positionSize \div 10, "logic_invalid", 0, 0,
                            <<>>, s.pyramidLevel),
          state |-> s]
    ELSE IF blackSwan(dailyChange)
    THEN [signal |-> Signal("WAIT", 0, "black_swan", dailyChange[1], 0, <<>>,
                            s.pyramidLevel),
          state |-> s]
    ELSE
    LET s1 == updatePeak(s, currentPrice)
        roi == calculateROI(s1, currentPrice)
    IN IF s1.positionSize > 0
       THEN [signal |-> evaluateOffensive(s1, h, currentPrice, ma20, roi), state |-> s1]
       ELSE [signal |-> evaluateDefensive(s1, currentPrice, currentDate), state |-> s1]

\* evaluate_market returns the signal and leaves the engine in `state`.
evaluate_market(s, h, currentPrice, ma20, currentDate, dailyChange) ==
    IF ~s.logicStatus
    THEN [signal |-> Signal("SELL_ALL", s.positionSize \div 10, "logic_invalid", 0, 0,
                            <<>>, s.pyramidLevel),
          state |-> s]
    ELSE IF blackSwan(dailyChange)
    THEN [signal |-> Signal("WAIT", 0, "black_swan", dailyChange[1], 0, <<>>,
                            s.pyramidLevel),
          state |-> s]
    ELSE
    LET s1 == updatePeak(s, currentPrice)
        roi == calculateROI(s1, currentPrice)
    IN IF roi[1] > 0 /\ s1.positionSize > 0
       THEN [signal |-> evaluateOffensive(s1, h, currentPrice, ma20, roi), state |-> s1]
       ELSE [signal |-> evaluateDefensive(s1, currentPrice, currentDate), state |-> s1]

\* A recordOperation that puts the record in front (unshift for push).
recordOperation_unshift(s, h, action, price, shares, date) ==
    <<[date |-> date, action |-> action, price |-> price,
       shares |-> shares, positionAfter |-> s.positionSize]>> \o h

recordOperation(s, h, action, price, shares, date) ==
    Append(h, [date |-> date, action |-> action, price |-> price,
               shares |-> shares, positionAfter |-> s.positionSize])

\* A resetState that forgets peakPrice.
resetState_keepsPeak(s) ==
    [s EXCEPT !.avgCost = Zero, !.pyramidLevel = 0, !.lastBuyPrice = 0]

resetState(s) ==
    [s EXCEPT !.avgCost = Zero, !.peakPrice = 0, !.pyramidLevel = 0,
              !.lastBuyPrice = 0]

\* An executeBuy that does not cap positionSize at 100.
executeBuy_noCap(s, h, shares, price, date) ==
    LET newPosition == s.positionSize + shares * 10
        \* (previousCost + newCost) / newPosition, with avgCost = n / d
        avgCost == IF newPosition > 0
                   THEN Ratio(s.avgCost[1] * s.positionSize
                                 + price * shares * 10 * s.avgCost[2],
                              s.avgCost[2] * newPosition)
                   ELSE <<price, 1>>
        s1 == [s EXCEPT !.avgCost = avgCost,
                        !.positionSize = newPosition,
                        !.lastBuyPrice = price,
                        !.peakPrice = Max(s.peakPrice, price),
                        !.lastOpDate = <<date>>,
                        !.pyramidLevel = Min(4, s.pyramidLevel + 1)]
    IN [state |-> s1, history |-> recordOperation(s1, h, "BUY", price, shares, date)]

\* The execute methods return the state and the contents of the
\* operationHistory array after the call.
executeBuy(s, h, shares, price, date) ==
    LET newPosition == Min(100, s.positionSize + shares * 10)
        \* (previousCost + newCost) / newPosition, with avgCost = n / d
        avgCost == IF newPosition > 0
                   THEN Ratio(s.avgCost[1] * s.positionSize
                                 + price * shares * 10 * s.avgCost[2],
                              s.avgCost[2] * newPosition)
                   ELSE <<price, 1>>
        s1 == [s EXCEPT !.avgCost = avgCost,
                        !.positionSize = newPosition,
                        !.lastBuyPrice = price,
                        !.peakPrice = Max(s.peakPrice, price),
                        !.lastOpDate = <<date>>,
                        !.pyramidLevel = Min(4, s.pyramidLevel + 1)]
    IN [state |-> s1, history |-> recordOperation(s1, h, "BUY", price, shares, date)]

\* An executeSell that does not reset a closed position.
executeSell_noReset(s, h, shares, price, date) ==
    LET soldPosition == shares * 10
        s1 == [s EXCEPT !.positionSize = Max(0, s.positionSize - soldPosition),
                        !.lastOpDate = <<date>>]
    IN [state |-> s1, history |-> recordOperation(s1, h, "SELL", price, shares, date)]

\* An executeSell that does not floor positionSize at 0.
executeSell_noFloor(s, h, shares, price, date) ==
    LET soldPosition == shares * 10
        s1 == [s EXCEPT !.positionSize = s.positionSize - soldPosition,
                        !.lastOpDate = <<date>>]
        s2 == IF s1.positionSize = 0 THEN resetState(s1) ELSE s1
    IN [state |-> s2, history |-> recordOperation(s2, h, "SELL", price, shares, date)]

executeSell(s, h, shares, price, date) ==
    LET soldPosition == shares * 10
        s1 == [s EXCEPT !.positionSize = Max(0, s.positionSize - soldPosition),
                        !.lastOpDate = <<date>>]
        s2 == IF s1.positionSize = 0 THEN resetState(s1) ELSE s1
    IN [state |-> s2, history |-> recordOperation(s2, h, "SELL", price, shares, date)]

\* An executeSellAll that records the position before the sale.
executeSellAll_recordsBefore(s, h, price, date) ==
    LET shares == s.positionSize \div 10
        s1 == resetState([s EXCEPT !.positionSize = 0, !.lastOpDate = <<date>>])
    IN [state |-> s1, history |-> recordOperation(s, h, "SELL_ALL", price, shares, date)]

executeSellAll(s, h, price, date) ==
    LET shares == s.positionSize \div 10
        s1 == resetState([s EXCEPT !.positionSize = 0, !.lastOpDate = <<date>>])
    IN [state |-> s1, history |-> recordOperation(s1, h, "SELL_ALL", price, shares, date)]

\* A setLogicStatus that liquidates when it invalidates the thesis.
setLogicStatus_liquidates(s, status) ==
    IF status THEN [s EXCEPT !.logicStatus = status]
    ELSE resetState([s EXCEPT !.logicStatus = status, !.positionSize = 0])

setLogicStatus(s, status) == [s EXCEPT !.logicStatus = status]

\* { ...this.state }: a new object with the same field values; its
\* operationHistory is the reference to the same array.
getState(s) == [f \in DOMAIN s |-> s[f]]

\* this.state = { ...state }: the engine's state becomes a new object with
\* the field values of the argument, the array reference included.
loadState(s, saved) == [f \in DOMAIN saved |-> saved[f]]

\* new FundManagerEngine(fundCode): the state after construction, its
\* operationHistory the fresh array `id`.
constructor(id) ==
    [positionSize |-> 0, avgCost |-> Zero, peakPrice |-> 0, lastOpDate |-> Null,
     logicStatus |-> TRUE, pyramidLevel |-> 0, operationHistory |-> id,
     lastBuyPrice |-> 0]

\* createFundManager(fundCode, savedState): a new engine, its
\* operationHistory the fresh array `id`, with savedState loaded if given.
createFundManager(id, savedState) ==
    IF savedState # Null
    THEN loadState(constructor(id), savedState[1])
    ELSE constructor(id)

----------------------------------------------------------------------------
(* The host: one engine, calls made one at a time.  A host step is one     *)
(* evaluate_market call, after which the host either leaves the signal     *)
(* alone or executes the signalled trade, with the signalled share count,  *)
(* at the price and on the date it evaluated.  This host executes every    *)
(* SELL signal; a BUY or SELL_ALL signal it may leave alone.  It trades    *)
(* only on TradeDates, and once the operationHistory holds `bound`         *)
(* records it only evaluates.                                              *)

history == arrays[state.operationHistory]

Init ==
    /\ state = constructor(1)
    /\ arrays = [id \in {1} |-> <<>>]
    /\ signal = NoSignal
    /\ executed = FALSE
    /\ fired = <<>>
    /\ lastOp = "none"
    /\ snapshot = <<>>
    /\ snapshotHistory = <<>>
    /\ copy = <<>>
    /\ pending = <<>>
    /\ fundInfoQueue = 0
    /\ jsonpgz = 0
    /\ tasks = <<>>

CanTrade(bound, currentDate) ==
    /\ currentDate \in TradeDates
    /\ Len(history) < bound

HostStep(bound, currentPrice, ma20, currentDate, dailyChange) ==
    LET r == evaluate_market(state, history, currentPrice, ma20, currentDate, dailyChange)
    IN /\ signal' = r.signal
       /\ UNCHANGED freeVars
       /\ \/ /\ r.signal.action # "SELL" \/ ~CanTrade(bound, currentDate)
             /\ state' = r.state
             /\ executed' = FALSE
             /\ UNCHANGED <<arrays, fired>>
          \/ /\ r.signal.action = "BUY"
             /\ CanTrade(bound, currentDate)
             /\ LET e == executeBuy(r.state, history, r.signal.shares,
                                    currentPrice, currentDate)
                IN /\ state' = e.state
                   /\ arrays' = [arrays EXCEPT ![state.operationHistory] = e.history]
             /\ executed' = TRUE
             /\ fired' = IF state.positionSize = 0 THEN <<>> ELSE fired
          \/ /\ r.signal.action = "SELL"
             /\ CanTrade(bound, currentDate)
             /\ LET e == executeSell(r.state, history, r.signal.shares,
                                     currentPrice, currentDate)
                IN /\ state' = e.state
                   /\ arrays' = [arrays EXCEPT ![state.operationHistory] = e.history]
             /\ executed' = TRUE
             /\ fired' = Append(fired, r.signal.tier)
          \/ /\ r.signal.action = "SELL_ALL"
             /\ r.signal.shares > 0
             /\ CanTrade(bound, currentDate)
             /\ LET e == executeSellAll(r.state, history, currentPrice, currentDate)
                IN /\ state' = e.state
                   /\ arrays' = [arrays EXCEPT ![state.operationHistory] = e.history]
             /\ executed' = TRUE
             /\ UNCHANGED fired

SetLogicStatus(status) ==
    /\ state' = setLogicStatus(state, status)
    /\ UNCHANGED <<arrays, signal, executed, fired>>
    /\ UNCHANGED freeVars

\* A run in which the host may invalidate and restore the thesis.
Next ==
    \/ \E p \in Prices, m \in MA20s, d \in Dates, dc \in DailyChanges :
          HostStep(MaxHistory, p, m, d, dc)
    \/ \E b \in BOOLEAN : SetLogicStatus(b)

Spec == Init /\ [][Next]_vars

\* A run in which the thesis stays valid and the host passes no dailyChange.
NextValid ==
    \E p \in Prices, m \in MA20s, d \in Dates :
        HostStep(MaxValidHistory, p, m, d, Null)

SpecValid == Init /\ [][NextValid]_vars

\* The same run with the shorter operationHistory.
NextShort ==
    \E p \in Prices, m \in MA20s, d \in Dates :
        HostStep(MaxShortHistory, p, m, d, Null)

SpecShort == Init /\ [][NextShort]_vars

\* The same host on trade dates only and with one moving average, long
\* enough to fill the pyramid.
NextPyramid ==
    \E p \in Prices, m \in PyramidMA20s, d \in PyramidDates :
        HostStep(MaxPyramidHistory, p, m, d, Null)

SpecPyramid == Init /\ [][NextPyramid]_vars

----------------------------------------------------------------------------
(* The free host: it calls the public methods in any order and with any    *)
(* arguments of its input sets, whatever the signals say.  Once the        *)
(* operationHistory holds `bound` records it makes no more execute calls.  *)

FreeEvaluate(currentPrice, ma20, currentDate, dailyChange) ==
    LET r == evaluate_market(state, history, currentPrice, ma20, currentDate, dailyChange)
    IN /\ state' = r.state
       /\ signal' = r.signal
       /\ executed' = FALSE
       /\ lastOp' = "evaluate_market"
       /\ UNCHANGED <<jsonpVars, arrays, fired, snapshot, snapshotHistory, copy, pending>>

FreeBuy(bound, shares, price, date) ==
    /\ Len(history) < bound
    /\ LET e == executeBuy(state, history, shares, price, date)
       IN /\ state' = e.state
          /\ arrays' = [arrays EXCEPT ![state.operationHistory] = e.history]
    /\ lastOp' = "executeBuy"
    /\ UNCHANGED <<jsonpVars, signal, executed, fired, snapshot, snapshotHistory, copy, pending>>

FreeSell(bound, shares, price, date) ==
    /\ Len(history) < bound
    /\ LET e == executeSell(state, history, shares, price, date)
       IN /\ state' = e.state
          /\ arrays' = [arrays EXCEPT ![state.operationHistory] = e.history]
    /\ lastOp' = "executeSell"
    /\ UNCHANGED <<jsonpVars, signal, executed, fired, snapshot, snapshotHistory, copy, pending>>

FreeSellAll(bound, price, date) ==
    /\ Len(history) < bound
    /\ LET e == executeSellAll(state, history, price, date)
       IN /\ state' = e.state
          /\ arrays' = [arrays EXCEPT ![state.operationHistory] = e.history]
    /\ lastOp' = "executeSellAll"
    /\ UNCHANGED <<jsonpVars, signal, executed, fired, snapshot, snapshotHistory, copy, pending>>

FreeSetLogicStatus(status) ==
    /\ state' = setLogicStatus(state, status)
    /\ lastOp' = "setLogicStatus"
    /\ UNCHANGED <<jsonpVars, arrays, signal, executed, fired, snapshot, snapshotHistory, copy,
                   pending>>

\* getState(): the host keeps the object it returns.  It asks once.
FreeGetState ==
    /\ snapshot = <<>>
    /\ snapshot' = <<getState(state)>>
    /\ snapshotHistory' = history
    /\ lastOp' = "getState"
    /\ UNCHANGED <<jsonpVars, state, arrays, signal, executed, fired, copy, pending>>

\* The free host, buying unit counts of buyUnits.
NextFree(bound, buyUnits) ==
    \/ \E p \in FreePrices, m \in FreeMA20s, d \in FreeDates : FreeEvaluate(p, m, d, Null)
    \/ \E u \in buyUnits, p \in FreeTradePrices, d \in FreeTradeDates : FreeBuy(bound, u, p, d)
    \/ \E u \in FreeUnits, p \in FreeTradePrices, d \in FreeTradeDates : FreeSell(bound, u, p, d)
    \/ \E p \in FreeTradePrices, d \in FreeTradeDates : FreeSellAll(bound, p, d)
    \/ \E b \in BOOLEAN : FreeSetLogicStatus(b)

\* Any non-negative unit counts.
NextFreeAny == NextFree(MaxFreeHistory, FreeUnits)

SpecFree == Init /\ [][NextFreeAny]_vars

\* Every buy is of one unit or more.
NextFreeOpen == NextFree(MaxFreeHistory, FreeUnits \ {0})

SpecOpen == Init /\ [][NextFreeOpen]_vars

----------------------------------------------------------------------------
(* The round trip.  The host runs the first engine as in SpecValid, then   *)
(* makes a second engine with createFundManager(fundCode,                  *)
(* engine.getState()), and from then on makes every call on both: on the   *)
(* first engine first, and on the second engine at most MaxPending calls   *)
(* later, in the same order and with the same arguments.                   *)

BeforeCopy(currentPrice, ma20, currentDate) ==
    /\ copy = <<>>
    /\ HostStep(MaxCopyHistory, currentPrice, ma20, currentDate, Null)

CreateCopy ==
    /\ copy = <<>>
    /\ snapshot' = <<getState(state)>>
    /\ snapshotHistory' = history
    /\ copy' = <<createFundManager(2, snapshot')>>
    /\ arrays' = [id \in DOMAIN arrays \cup {2} |->
                     IF id \in DOMAIN arrays THEN arrays[id] ELSE <<>>]
    /\ lastOp' = "loadState"
    /\ UNCHANGED <<jsonpVars, state, signal, executed, fired, pending>>

\* The first engine evaluates, and the host executes the signalled trade or
\* leaves it.
OriginalStep(currentPrice, ma20, currentDate) ==
    LET r == evaluate_market(state, history, currentPrice, ma20, currentDate, Null)
        evaluation == [op |-> "evaluate_market", price |-> currentPrice, ma20 |-> ma20,
                       date |-> currentDate, shares |-> 0, signal |-> r.signal]
        execution == [op |-> r.signal.action, price |-> currentPrice, ma20 |-> ma20,
                      date |-> currentDate, shares |-> r.signal.shares,
                      signal |-> NoSignal]
    IN /\ copy # <<>>
       /\ signal' = r.signal
       /\ UNCHANGED <<jsonpVars, fired, snapshot, snapshotHistory, copy>>
       /\ \/ /\ Len(pending) < MaxPending
             /\ state' = r.state
             /\ executed' = FALSE
             /\ lastOp' = "evaluate_market"
             /\ pending' = Append(pending, evaluation)
             /\ UNCHANGED arrays
          \/ /\ Len(pending) + 1 < MaxPending
             /\ Len(history) < MaxCopyHistory
             /\ r.signal.action \in {"BUY", "SELL", "SELL_ALL"}
             /\ r.signal.shares > 0
             /\ LET e == CASE r.signal.action = "BUY" ->
                                 executeBuy(r.state, history, r.signal.shares,
                                            currentPrice, currentDate)
                            [] r.signal.action = "SELL" ->
                                 executeSell(r.state, history, r.signal.shares,
                                             currentPrice, currentDate)
                            [] r.signal.action = "SELL_ALL" ->
                                 executeSellAll(r.state, history, currentPrice,
                                                currentDate)
                IN /\ state' = e.state
                   /\ arrays' = [arrays EXCEPT ![state.operationHistory] = e.history]
             /\ executed' = TRUE
             /\ lastOp' = "execute"
             /\ pending' = pending \o <<evaluation, execution>>

\* The second engine gets the next call the first engine got.
CopyStep ==
    /\ copy # <<>>
    /\ pending # <<>>
    /\ LET call == Head(pending)
           s == copy[1]
           h == arrays[s.operationHistory]
       IN IF call.op = "evaluate_market"
          THEN /\ copy' = <<evaluate_market(s, h, call.price, call.ma20, call.date,
                                            Null).state>>
               /\ UNCHANGED arrays
          ELSE LET e == CASE call.op = "BUY" ->
                                executeBuy(s, h, call.shares, call.price, call.date)
                          [] call.op = "SELL" ->
                                executeSell(s, h, call.shares, call.price, call.date)
                          [] call.op = "SELL_ALL" ->
                                executeSellAll(s, h, call.price, call.date)
               IN /\ copy' = <<e.state>>
                  /\ arrays' = [arrays EXCEPT ![s.operationHistory] = e.history]
    /\ pending' = Tail(pending)
    /\ UNCHANGED <<jsonpVars, state, signal, executed, fired, lastOp, snapshot, snapshotHistory>>

NextCopy ==
    \/ \E p \in Prices, m \in MA20s, d \in Dates : BeforeCopy(p, m, d)
    \/ CreateCopy
    \/ \E p \in CopyPrices, m \in CopyMA20s, d \in CopyDates : OriginalStep(p, m, d)
    \/ CopyStep

SpecCopy == Init /\ [][NextCopy]_vars

\* The free host that also takes a snapshot.
NextSnap ==
    \/ NextFree(MaxSnapHistory, FreeUnits)
    \/ FreeGetState

SpecSnap == Init /\ [][NextSnap]_vars

----------------------------------------------------------------------------
(* The loading host: it hands the engine state objects of its own, which   *)
(* need not be states the engine's methods produce, and evaluates.         *)

\* The operationHistory arrays of the state objects the host loads.
SavedHistories ==
    { <<>>,
      <<[date |-> 1, action |-> "BUY", price |-> 100, shares |-> 2, positionAfter |-> 20],
        [date |-> 1, action |-> "SELL", price |-> 115, shares |-> 1, positionAfter |-> 10]>> }

\* The state objects the host loads; operationHistory is the array 2.
SavedStates ==
    [positionSize : {0, 20, 100}, avgCost : {Zero, <<100, 1>>},
     peakPrice : {0, 100, 130}, lastOpDate : {Null, <<1>>}, logicStatus : BOOLEAN,
     pyramidLevel : 0..4, operationHistory : {2}, lastBuyPrice : {0, 100}]

\* engine.loadState(saved), saved a state object whose operationHistory
\* array holds h.  The host loads once, before any other call.
HostLoadState(saved, h) ==
    /\ lastOp = "none"
    /\ state' = loadState(state, saved)
    /\ arrays' = [id \in {1, 2} |-> IF id = 2 THEN h ELSE arrays[1]]
    /\ signal' = NoSignal
    /\ lastOp' = "loadState"
    /\ UNCHANGED <<jsonpVars, executed, fired, snapshot, snapshotHistory, copy, pending>>

NextLoaded ==
    \/ \E saved \in SavedStates, h \in SavedHistories : HostLoadState(saved, h)
    \/ \E p \in FreePrices, m \in FreeMA20s, d \in FreeDates : FreeEvaluate(p, m, d, Null)

SpecLoaded == Init /\ [][NextLoaded]_vars

----------------------------------------------------------------------------
(* The JSONP fetchFundInfo (part_009:87-146).  A task is one call; data    *)
(* delivered by a script is represented by its fundcode, <<>> for data     *)
(* without one.  A script that was appended keeps loading when cleanup     *)
(* removes its element from the head, so its response may still run.       *)

\* The task of a call just made: its executor has not run.
NewTask(code, queue) ==
    [code |-> code, waitsOn |-> queue, phase |-> "queued", originalCallback |-> 0,
     isResolved |-> FALSE, timer |-> FALSE, script |-> "none", resolves |-> 0,
     value |-> <<>>]

\* The promise fundInfoQueue stood for at call time is fulfilled:
\* Promise.resolve(), or task.then(() => { }) of a settled task.
QueueFulfilled(q) == IF q = 0 THEN TRUE ELSE tasks[q].phase = "settled"

\* fetchFundInfo(code): chains the task on fundInfoQueue and makes
\* task.then(() => { }) the new queue.
fetchFundInfo(code) ==
    /\ Len(tasks) < MaxCalls
    /\ tasks' = Append(tasks, NewTask(code, fundInfoQueue))
    /\ fundInfoQueue' = Len(tasks) + 1
    /\ UNCHANGED jsonpgz
    /\ UNCHANGED engineVars

\* The task's executor: saves window.jsonpgz, installs its handler, appends
\* the script and arms the 3-second timer.
Executor(i) ==
    /\ i <= Len(tasks)
    /\ tasks[i].phase = "queued"
    /\ QueueFulfilled(tasks[i].waitsOn)
    /\ tasks' = [tasks EXCEPT ![i].phase = "waiting",
                              ![i].originalCallback = jsonpgz,
                              ![i].script = "loading",
                              ![i].timer = TRUE]
    /\ jsonpgz' = i
    /\ UNCHANGED fundInfoQueue
    /\ UNCHANGED engineVars

\* isResolved = true; cleanup(); searchFundInfo(code).then(resolve)...:
\* the tasks after task i has given up on its script, or as they were if
\* isResolved was set.
fallback(ts, i) ==
    IF ts[i].isResolved THEN ts
    ELSE [ts EXCEPT ![i].isResolved = TRUE, ![i].timer = FALSE, ![i].phase = "fallback"]

\* The handler task i installed as window.jsonpgz, called with data.
handler(ts, i, data) ==
    IF ts[i].isResolved THEN ts
    ELSE IF data = <<>>
    THEN fallback(ts, i)
    ELSE [ts EXCEPT ![i].isResolved = TRUE, ![i].timer = FALSE, ![i].phase = "settled",
                    ![i].resolves = @ + 1, ![i].value = <<data[1]>>]

\* window.jsonpgz after task i ran its handler, onerror or timeout on ts:
\* cleanup() restores the callback saved by the executor.
restored(ts, i) == IF ts[i].isResolved THEN jsonpgz ELSE ts[i].originalCallback

\* The script of task i arrives and runs jsonpgz(data), data for the code
\* the script was requested for: it calls whatever window.jsonpgz is now.
ScriptResponds(i, data) ==
    /\ i <= Len(tasks)
    /\ data \in {<<>>, <<tasks[i].code>>}
    /\ tasks[i].script = "loading"
    /\ LET ts == [tasks EXCEPT ![i].script = "done"]
       IN IF jsonpgz = 0
          THEN tasks' = ts /\ UNCHANGED jsonpgz
          ELSE /\ tasks' = handler(ts, jsonpgz, data)
               /\ jsonpgz' = restored(ts, jsonpgz)
    /\ UNCHANGED fundInfoQueue
    /\ UNCHANGED engineVars

\* The script of task i fails to load: script.onerror.
ScriptError(i) ==
    /\ i <= Len(tasks)
    /\ tasks[i].script = "loading"
    /\ LET ts == [tasks EXCEPT ![i].script = "done"]
       IN /\ tasks' = fallback(ts, i)
          /\ jsonpgz' = restored(ts, i)
    /\ UNCHANGED fundInfoQueue
    /\ UNCHANGED engineVars

\* The 3-second timer of task i fires.
Timeout(i) ==
    /\ i <= Len(tasks)
    /\ tasks[i].timer
    /\ LET ts == [tasks EXCEPT ![i].timer = FALSE]
       IN /\ tasks' = fallback(ts, i)
          /\ jsonpgz' = restored(ts, i)
    /\ UNCHANGED fundInfoQueue
    /\ UNCHANGED engineVars

\* searchFundInfo(code) of task i settles, with the fund found for the
\* task's code or with null (also on rejection): resolve(result).
FallbackSettles(i, result) ==
    /\ i <= Len(tasks)
    /\ result \in {"null", tasks[i].code}
    /\ tasks[i].phase = "fallback"
    /\ tasks' = [tasks EXCEPT ![i].phase = "settled", ![i].resolves = @ + 1,
                              ![i].value = <<result>>]
    /\ UNCHANGED <<fundInfoQueue, jsonpgz>>
    /\ UNCHANGED engineVars

NextJsonp ==
    \/ \E code \in FundCodes : fetchFundInfo(code)
    \/ \E i \in 1..MaxCalls : Executor(i)
    \/ \E i \in 1..MaxCalls, data \in {<<>>} \cup {<<c>> : c \in FundCodes} :
          ScriptResponds(i, data)
    \/ \E i \in 1..MaxCalls : ScriptError(i)
    \/ \E i \in 1..MaxCalls : Timeout(i)
    \/ \E i \in 1..MaxCalls, result \in {"null"} \cup FundCodes :
          FallbackSettles(i, result)

SpecJsonp == Init /\ [][NextJsonp]_vars

----------------------------------------------------------------------------
(* Properties.  Those about evaluate_market are stated of every reachable  *)
(* state and every input of AllPrices, AllMA20s, AllDates and              *)
(* AllDailyChanges: Eval is the call's outcome in the current state.       *)

Eval(p, m, d, dc) == evaluate_market(state, history, p, m, d, dc)

\* dailyChange is provided and is a drop of 7% or more.
IsBlackSwanDrop(dc) == dc # <<>> /\ dc[1] <= -7

\* C1: whenever logicStatus is false, evaluate_market returns SELL_ALL with
\* shares = positionSize / 10 for every input, a dailyChange of -7% or less
\* included, and it leaves logicStatus false, so the next evaluation returns
\* it again.
C1_InvalidThesisSellsAll ==
    ~state.logicStatus =>
        \A p \in AllPrices, m \in AllMA20s, d \in AllDates, dc \in AllDailyChanges :
            LET r == Eval(p, m, d, dc)
            IN /\ r.signal.action = "SELL_ALL"
               /\ r.signal.shares * 10 = state.positionSize
               /\ ~r.state.logicStatus

\* An invalidated thesis with an open position: evaluate_market has returned
\* the forced SELL_ALL and the host has not executed it.
C1_Witness ==
    /\ ~state.logicStatus
    /\ state.positionSize > 0
    /\ signal.action = "SELL_ALL"
    /\ signal.reason.kind = "logic_invalid"
    /\ signal.shares * 10 = state.positionSize
    /\ ~executed

\* C2 as stated: every evaluate_market call with dailyChange <= -7% returns
\* WAIT with 0 shares and changes no state field.
C2_BlackSwanAlwaysWaits ==
    \A dc \in AllDailyChanges :
        IsBlackSwanDrop(dc) =>
            \A p \in AllPrices, m \in AllMA20s, d \in AllDates :
                LET r == Eval(p, m, d, dc)
                IN /\ r.signal.action = "WAIT"
                   /\ r.signal.shares = 0
                   /\ r.state = state

\* C2, amended: while logicStatus is true, every evaluate_market call with
\* dailyChange <= -7% returns WAIT with 0 shares and changes no state field,
\* whatever the price, the moving average and the date.
C2_BlackSwanWaitsWhileValid ==
    state.logicStatus =>
        \A dc \in AllDailyChanges :
            IsBlackSwanDrop(dc) =>
                \A p \in AllPrices, m \in AllMA20s, d \in AllDates :
                    LET r == Eval(p, m, d, dc)
                    IN /\ r.signal.action = "WAIT"
                       /\ r.signal.shares = 0
                       /\ r.state = state

\* evaluate_market has returned WAIT on a position whose peak is below a
\* price the host evaluates at: without the drop that call would have moved
\* peakPrice or returned a trade.
C2_Witness ==
    /\ signal.action = "WAIT"
    /\ ~executed
    /\ state.logicStatus
    /\ state.positionSize > 0
    /\ \E p \in Prices : p > state.peakPrice

\* No value occurs twice in seq.
NoDuplicates(seq) == \A i, j \in 1..Len(seq) : i # j => seq[i] # seq[j]

\* C3: within one position lifetime, with every SELL signal executed at the
\* evaluated price, each profit-taking tier produces a SELL signal at most
\* once: the tiers of the executed SELL signals are distinct, and a SELL
\* signal still to be executed is for a tier that has not fired.  (fired
\* lists the tiers of the lifetime's executed SELL signals.)
C3_EachTierFiresOnce ==
    /\ NoDuplicates(fired)
    /\ (signal.action = "SELL" /\ ~executed) => ~includes(fired, signal.tier)

\* evaluate_market runs its defensive branch at price p: the position is
\* flat or its ROI at p is not positive.
Defensive(p) ==
    \/ state.positionSize = 0
    \/ state.avgCost[1] = 0
    \/ p * state.avgCost[2] <= state.avgCost[1]

\* The prices at which evaluate_market runs its defensive branch.
DefensiveAt == {p \in AllPrices : Defensive(p)}

\* The dailyChange arguments that are no black-swan drop.
NoBlackSwan == {dc \in AllDailyChanges : ~IsBlackSwanDrop(dc)}

\* Whole days from lastOpDate to d.
DaysSinceLastOp(d) == Abs(d - state.lastOpDate[1])

\* The cooldown blocks on date d.
CooldownActive(d) == state.lastOpDate # Null /\ DaysSinceLastOp(d) < 14

\* C4: in the defensive branch with lastOpDate set, d whole days before
\* currentDate: if d < 14 the result is HOLD with 0 shares and the engine's
\* pyramidLevel, reporting 14 - d remaining days; if d >= 14 the result is
\* not the cooldown HOLD but what the same call returns with no lastOpDate.
C4_Cooldown ==
    (state.logicStatus /\ state.lastOpDate # Null) =>
        \A dc \in NoBlackSwan, p \in DefensiveAt, d \in AllDates, m \in AllMA20s :
                LET r == Eval(p, m, d, dc)
                    free == evaluate_market([state EXCEPT !.lastOpDate = Null], history,
                                            p, m, d, dc)
                IN IF DaysSinceLastOp(d) < 14
                   THEN /\ r.signal.action = "HOLD"
                        /\ r.signal.shares = 0
                        /\ r.signal.pyramidLevel = state.pyramidLevel
                        /\ r.signal.reason = [kind |-> "cooldown",
                                              n |-> 14 - DaysSinceLastOp(d)]
                   ELSE /\ r.signal.reason.kind # "cooldown"
                        /\ r.signal = free.signal

\* Thirteen days after a trade, evaluate_market has returned the cooldown
\* HOLD with one day left.
C4_Witness ==
    /\ signal.reason = [kind |-> "cooldown", n |-> 1]
    /\ signal.action = "HOLD"
    /\ state.lastOpDate # Null
    /\ ~executed

\* The dates on which no cooldown blocks.
CooldownOver == {d \in AllDates : ~CooldownActive(d)}

\* C5: from a flat position with logicStatus true, no black-swan drop and
\* no active cooldown, evaluate_market returns BUY with 2 shares and
\* pyramidLevel 1, whatever currentPrice and ma20 are.
C5_FlatOpens ==
    (state.logicStatus /\ state.pyramidLevel = 0 /\ state.positionSize = 0) =>
        \A dc \in NoBlackSwan, d \in CooldownOver, p \in AllPrices, m \in AllMA20s :
                LET r == Eval(p, m, d, dc)
                IN /\ r.signal.action = "BUY"
                   /\ r.signal.shares = 2
                   /\ r.signal.pyramidLevel = 1

\* A position was closed, the cooldown has passed, and evaluate_market has
\* returned the opening BUY, which the host has not executed.
C5_Witness ==
    /\ signal.reason.kind = "open"
    /\ signal.action = "BUY"
    /\ signal.shares = 2
    /\ ~executed
    /\ state.positionSize = 0
    /\ state.pyramidLevel = 0
    /\ state.lastOpDate # Null

\* The drop, in percent of lastBuyPrice, that triggers the add to level L + 1.
TriggerFrom(L) == CASE L = 1 -> 10 [] L = 2 -> 15 [] L = 3 -> 20

\* The share count of the add to level L + 1.
SharesFrom(L) == CASE L = 1 -> 2 [] L = 2 -> 3 [] L = 3 -> 3

\* C6: in the defensive branch with no cooldown and pyramidLevel L in 1..3,
\* evaluate_market returns BUY exactly when the drop from lastBuyPrice is at
\* least 10%, 15%, 20% (for L = 1, 2, 3), with 2, 3, 3 shares and
\* pyramidLevel L + 1; otherwise it returns HOLD with 0 shares and level L.
C6_PyramidAdds ==
    (state.logicStatus /\ state.pyramidLevel \in 1..3) =>
        \A dc \in NoBlackSwan, p \in DefensiveAt, d \in CooldownOver, m \in AllMA20s :
                LET r == Eval(p, m, d, dc)
                    L == state.pyramidLevel
                    drop == 100 * (state.lastBuyPrice - p)
                               >= TriggerFrom(L) * state.lastBuyPrice
                IN IF drop
                   THEN /\ r.signal.action = "BUY"
                        /\ r.signal.shares = SharesFrom(L)
                        /\ r.signal.pyramidLevel = L + 1
                   ELSE /\ r.signal.action = "HOLD"
                        /\ r.signal.shares = 0
                        /\ r.signal.pyramidLevel = L

\* At level 3, a drop of exactly 20% from lastBuyPrice has produced the BUY
\* of 3 shares for level 4.
C6_Witness ==
    /\ signal.action = "BUY"
    /\ signal.pyramidLevel = 4
    /\ signal.shares = 3
    /\ ~executed
    /\ state.pyramidLevel = 3
    /\ \E p \in Prices : 100 * (state.lastBuyPrice - p) = 20 * state.lastBuyPrice

\* evaluate_market runs its offensive branch at price p: a position is open
\* and its ROI at p is positive.
Offensive(p) == state.positionSize > 0 /\ ~Defensive(p)

\* The prices at which evaluate_market runs its offensive branch.
OffensiveAt == {p \in AllPrices : Offensive(p)}

\* The peak evaluate_market compares price p with.
PeakAt(p) == IF p > state.peakPrice THEN p ELSE state.peakPrice

\* The drawdown of price p from the peak is 8% or more.
StopAt(p) == 100 * (PeakAt(p) - p) >= 8 * PeakAt(p)

\* C7: in the offensive branch, whenever the drawdown from the peak is 8%
\* or more, evaluate_market returns SELL_ALL with shares = positionSize / 10,
\* whatever ma20 is and whichever tiers are met.
C7_TrailingStop ==
    (state.logicStatus /\ state.positionSize > 0) =>
        \A dc \in NoBlackSwan, p \in OffensiveAt, d \in AllDates, m \in AllMA20s :
            StopAt(p) =>
                LET r == Eval(p, m, d, dc)
                IN /\ r.signal.action = "SELL_ALL"
                   /\ r.signal.shares * 10 = state.positionSize

\* evaluate_market has returned the trailing-stop SELL_ALL for the whole of
\* an open position, and the host has not executed it.
C7_Witness ==
    /\ signal.reason.kind = "trailing_stop"
    /\ signal.action = "SELL_ALL"
    /\ signal.shares * 10 = state.positionSize
    /\ state.positionSize > 0
    /\ ~executed

\* C8: in the offensive branch with a drawdown below 8%, whenever
\* currentPrice < ma20 evaluate_market returns HOLD with 0 shares, whatever
\* the ROI and the tiers; and it returns SELL only when currentPrice >= ma20.
C8_TrendWarning ==
    (state.logicStatus /\ state.positionSize > 0) =>
        \A p \in AllPrices, m \in AllMA20s :
            p < m =>
                /\ \A dc \in AllDailyChanges, d \in AllDates :
                       Eval(p, m, d, dc).signal.action # "SELL"
                /\ (p \in OffensiveAt /\ ~StopAt(p)) =>
                       \A dc \in NoBlackSwan, d \in AllDates :
                           LET r == Eval(p, m, d, dc)
                           IN r.signal.action = "HOLD" /\ r.signal.shares = 0

\* With no tier fired in this lifetime and an ROI of 15% or more,
\* evaluate_market has returned the moving-average HOLD.
C8_Witness ==
    /\ signal.reason.kind = "below_ma20"
    /\ signal.action = "HOLD"
    /\ signal.roi # <<>>
    /\ 100 * signal.roi[1] >= 15 * signal.roi[2]
    /\ fired = <<>>
    /\ state.positionSize > 0
    /\ ~executed

\* The sell ratio, in percent, of the tier with threshold T percent.
SellRatioOf(T) == CASE T = 15 -> 20 [] T = 30 -> 30 [] T = 50 -> 20

\* The tiers that are due at price p: not executed in this lifetime, and
\* with a threshold the ROI at p meets.
DueAt(p) ==
    {T \in {15, 30, 50} :
        /\ ~includes(fired, T)
        /\ 100 * (p * state.avgCost[2] - state.avgCost[1]) >= T * state.avgCost[1]}

\* C9: when evaluate_market returns SELL, it is for the lowest-threshold
\* tier that is not yet executed and whose threshold the ROI meets, with
\* shares = ceil(positionSize * sellRatio / 10); when there is no such tier
\* and neither the trailing stop nor the trend warning applies, the result
\* is HOLD with 0 shares.
C9_LowestDueTierFires ==
    (state.logicStatus /\ state.positionSize > 0) =>
        \A p \in AllPrices, d \in AllDates, dc \in AllDailyChanges, m \in AllMA20s :
            LET r == Eval(p, m, d, dc)
                due == DueAt(p)
            IN /\ r.signal.action = "SELL" =>
                  /\ due # {}
                  /\ \A T \in due : r.signal.tier <= T
                  /\ r.signal.tier \in due
                  /\ r.signal.shares
                        = Ceil(state.positionSize * SellRatioOf(r.signal.tier), 1000)
               /\ (/\ ~IsBlackSwanDrop(dc)
                   /\ Offensive(p)
                   /\ ~StopAt(p)
                   /\ p >= m
                   /\ due = {}) => (r.signal.action = "HOLD" /\ r.signal.shares = 0)

----------------------------------------------------------------------------
(* Properties of the execute methods and of the state's invariants.  Those *)
(* about one method are stated of every reachable state and every          *)
(* argument of the sets below.                                             *)

\* The arguments the properties of the execute methods range over.
BuyUnits == Units \ {0}
TradePrices == FreePrices \cup FreeTradePrices

\* a <= b, for rationals a and b.
LessEq(a, b) == a[1] * b[2] <= b[1] * a[2]

\* C11: after executeBuy with units >= 1, avgCost is the average of the
\* previous avgCost, weighted by the previous positionSize, and the price,
\* weighted by the size actually added; it lies between the smaller and the
\* larger of the previous avgCost and the price; and it equals the price
\* when the prior position was empty.
C11_WeightedAverage ==
    \A units \in BuyUnits, price \in TradePrices, date \in FreeTradeDates :
        LET new == executeBuy(state, history, units, price, date).state
            added == new.positionSize - state.positionSize
            weighted == Ratio(state.avgCost[1] * state.positionSize
                                 + price * added * state.avgCost[2],
                              state.avgCost[2] * new.positionSize)
        IN /\ new.avgCost = weighted
           /\ state.positionSize > 0 =>
                 /\ LessEq(state.avgCost, new.avgCost) \/ LessEq(<<price, 1>>, new.avgCost)
                 /\ LessEq(new.avgCost, state.avgCost) \/ LessEq(new.avgCost, <<price, 1>>)
           /\ state.positionSize = 0 => new.avgCost = <<price, 1>>

\* C12: executeSell(units, price, date) sets positionSize to
\* max(0, positionSize - 10 * units) and lastOpDate to date and appends one
\* SELL record; if the new positionSize is 0 it sets avgCost, peakPrice,
\* pyramidLevel and lastBuyPrice to 0, and otherwise it leaves them and
\* logicStatus unchanged.
C12_ExecuteSell ==
    \A units \in Units, price \in TradePrices, date \in FreeDates :
        LET e == executeSell(state, history, units, price, date)
            new == e.state
            rest == state.positionSize - 10 * units
        IN /\ new.positionSize = IF rest < 0 THEN 0 ELSE rest
           /\ new.lastOpDate = <<date>>
           /\ e.history = history \o <<[date |-> date, action |-> "SELL", price |-> price,
                                        shares |-> units,
                                        positionAfter |-> new.positionSize]>>
           /\ new.positionSize = 0 =>
                 /\ new.avgCost = <<0, 1>>
                 /\ new.peakPrice = 0
                 /\ new.pyramidLevel = 0
                 /\ new.lastBuyPrice = 0
           /\ new.positionSize > 0 =>
                 /\ new.avgCost = state.avgCost
                 /\ new.peakPrice = state.peakPrice
                 /\ new.pyramidLevel = state.pyramidLevel
                 /\ new.lastBuyPrice = state.lastBuyPrice
                 /\ new.logicStatus = state.logicStatus

\* The free host has sold part of a position: the cost basis, the peak and
\* the level of the position are still there.
C12_Witness ==
    /\ lastOp = "executeSell"
    /\ state.positionSize > 0
    /\ state.positionSize < 100
    /\ state.avgCost # <<0, 1>>
    /\ state.pyramidLevel > 0
    /\ history[Len(history)].action = "SELL"
    /\ history[Len(history)].shares > 0

\* C13: executeSellAll(price, date) leaves the engine in the state
\* executeSell(positionSize / 10, price, date) leaves it in, with the same
\* record appended but for its action SELL_ALL: positionSize, avgCost,
\* peakPrice, pyramidLevel and lastBuyPrice are 0, lastOpDate is date, and
\* the one appended record has shares = previous positionSize / 10 and
\* positionAfter = 0.
C13_SellAllIsSellOfAll ==
    \A price \in TradePrices, date \in FreeDates :
        LET all == executeSellAll(state, history, price, date)
            sell == executeSell(state, history, state.positionSize \div 10, price, date)
            new == all.state
            n == Len(history)
        IN /\ new = sell.state
           /\ Len(all.history) = n + 1
           /\ Len(sell.history) = n + 1
           /\ SubSeq(all.history, 1, n) = history
           /\ all.history[n + 1] = [sell.history[n + 1] EXCEPT !.action = "SELL_ALL"]
           /\ sell.history[n + 1].action = "SELL"
           /\ all.history[n + 1].shares * 10 = state.positionSize
           /\ all.history[n + 1].positionAfter = 0
           /\ new.positionSize = 0
           /\ new.avgCost = <<0, 1>>
           /\ new.peakPrice = 0
           /\ new.pyramidLevel = 0
           /\ new.lastBuyPrice = 0
           /\ new.lastOpDate = <<date>>

\* The free host has closed an open position with executeSellAll.
C13_Witness ==
    /\ lastOp = "executeSellAll"
    /\ state.positionSize = 0
    /\ history[Len(history)].action = "SELL_ALL"
    /\ history[Len(history)].shares > 0
    /\ history[Len(history)].positionAfter = 0

\* C14: a setLogicStatus call changes only logicStatus, and no other call
\* of the host changes logicStatus: once false, it stays false across
\* evaluate_market and the execute calls until setLogicStatus(true).
C14_OnlySetLogicStatus ==
    [][/\ lastOp' = "setLogicStatus" =>
              /\ \A f \in DOMAIN state \ {"logicStatus"} : state'[f] = state[f]
              /\ arrays' = arrays
       /\ lastOp' # "setLogicStatus" => state'.logicStatus = state.logicStatus]_vars

\* The thesis was invalidated with a position open, and it is still
\* invalid after the executeSellAll that closed the position.
C14_Witness ==
    /\ ~state.logicStatus
    /\ lastOp = "executeSellAll"
    /\ state.positionSize = 0
    /\ history[Len(history)].shares > 0

\* C15: positionSize is a multiple of 10 from 0 to 100 and pyramidLevel is
\* an integer from 0 to 4, after any sequence of calls with non-negative
\* integer unit counts.
C15_Ranges ==
    /\ state.positionSize \in {10 * k : k \in 0..10}
    /\ state.pyramidLevel \in 0..4

\* Five buys in a row: the position is capped at 100 and the level at 4.
C15_Witness ==
    /\ Len(history) = 5
    /\ \A i \in 1..5 : history[i].action = "BUY" /\ history[i].shares = 9
    /\ state.positionSize = 100
    /\ state.pyramidLevel = 4

\* C16: when every buy is of one unit or more at a positive price,
\* positionSize = 0 exactly when pyramidLevel = 0; a flat engine has
\* avgCost, peakPrice and lastBuyPrice 0; an open position has avgCost > 0.
C16_FlatIffLevelZero ==
    /\ state.positionSize = 0 <=> state.pyramidLevel = 0
    /\ state.positionSize = 0 =>
          /\ state.avgCost = <<0, 1>>
          /\ state.peakPrice = 0
          /\ state.lastBuyPrice = 0
    /\ state.positionSize > 0 => state.avgCost[1] > 0

\* A position was opened, its peak was raised by an evaluation, and an
\* executeSell has closed it.
C16_Witness ==
    /\ lastOp = "executeSell"
    /\ state.positionSize = 0
    /\ state.pyramidLevel = 0
    /\ Len(history) >= 2
    /\ history[Len(history) - 1].positionAfter > 0
    /\ signal.action \in {"SELL", "HOLD"}
    /\ signal.roi # <<>>
    /\ signal.roi[1] > 0

\* The execute methods.
ExecuteOps == {"executeBuy", "executeSell", "executeSellAll"}

\* C17: operationHistory is append-only: each executeBuy, executeSell and
\* executeSellAll call appends exactly one record at the end and leaves the
\* earlier records as they were, and an evaluate_market, setLogicStatus or
\* getState call leaves operationHistory unchanged; the state keeps
\* referring to the same array.
C17_AppendOnly ==
    [][LET before == arrays[state.operationHistory]
           after == arrays'[state'.operationHistory]
       IN /\ state'.operationHistory = state.operationHistory
          /\ IF lastOp' \in ExecuteOps
             THEN /\ Len(after) = Len(before) + 1
                  /\ SubSeq(after, 1, Len(before)) = before
             ELSE after = before]_vars

\* An executeSellAll on a flat engine has appended a third record, after a
\* snapshot was taken.
C17_Witness ==
    /\ lastOp = "executeSellAll"
    /\ Len(history) = 3
    /\ history[3].action = "SELL_ALL"
    /\ history[3].shares = 0
    /\ history[2].positionAfter = 0
    /\ snapshot # <<>>

\* No execute call was made since the snapshot was taken: every execute
\* call appends a record to the array the snapshot refers to.
NoExecuteSinceSnapshot ==
    /\ snapshot # <<>>
    /\ snapshot[1].operationHistory = state.operationHistory
    /\ Len(history) = Len(snapshotHistory)

\* C19: a getState() call made with no execute call since the previous one
\* returns a snapshot structurally equal to the previous one, whatever
\* other calls were made in between.
C19_SnapshotsEqual ==
    NoExecuteSinceSnapshot => getState(state) = snapshot[1]

\* C20: no later call on the engine changes a field of a snapshot that
\* getState() returned, the contents and the length of its
\* operationHistory included.
C20_SnapshotImmutable ==
    snapshot # <<>> => arrays[snapshot[1].operationHistory] = snapshotHistory

\* C18: after loadState(getState()), the second engine returns, for the
\* same sequence of evaluate_market and execute calls, the signals the
\* first engine returned: the evaluate_market call it is about to get
\* returns the signal the first engine returned for it.
C18_RoundTripSameSignals ==
    (copy # <<>> /\ pending # <<>> /\ Head(pending).op = "evaluate_market") =>
        LET call == Head(pending)
            s == copy[1]
        IN evaluate_market(s, arrays[s.operationHistory], call.price, call.ma20,
                           call.date, Null).signal = call.signal

----------------------------------------------------------------------------
(* Properties of evaluate_market over the states a host can load.          *)

\* The prices evaluate_market is called with, invalid ones included.
AnyPrices == AllPrices \cup {-1, 0}

\* The actions of a TradingSignal that evaluate_market may return.
SignalActions == {"BUY", "SELL", "SELL_ALL", "HOLD", "WAIT"}

\* calculateROI returns 0 without dividing.
RoiGuarded == state.positionSize = 0 \/ state.avgCost = Zero

\* evaluateDefensive, entered on date d, gets past the cooldown and the
\* tests of level 0 and level 4 and computes
\* (lastBuyPrice - currentPrice) / lastBuyPrice.
ComputesDropFromLastBuy(d) ==
    /\ ~inCooldown(state.lastOpDate, d)
    /\ state.pyramidLevel \in 1..3

\* The call returns one signal with an action of SignalActions and
\* shares >= 0; and where calculateROI is guarded the ROI used is 0 and,
\* past the thesis and black-swan tests, the result is the defensive
\* branch's, a BUY or a HOLD.
TotalAt(p, m, d, dc) ==
    LET r == Eval(p, m, d, dc)
    IN /\ r.signal.action \in SignalActions
       /\ r.signal.shares >= 0
       /\ RoiGuarded =>
             /\ calculateROI(r.state, p) = Zero
             /\ r.signal.roi \in {<<>>, Zero}
             /\ (state.logicStatus /\ ~IsBlackSwanDrop(dc)) =>
                   /\ r.signal = evaluateDefensive(r.state, p, d)
                   /\ r.signal.action \in {"BUY", "HOLD"}

\* C21 as stated: evaluate_market is total over every state and input, and
\* whenever positionSize = 0 or avgCost = 0 the ROI used is 0, the
\* defensive branch is taken and no quotient with a zero denominator
\* decides the outcome.
C21_NoDivisionByZeroDecides ==
    \A p \in AnyPrices, m \in AllMA20s, d \in AllDates, dc \in AllDailyChanges :
        /\ TotalAt(p, m, d, dc)
        /\ (RoiGuarded /\ state.logicStatus /\ ~IsBlackSwanDrop(dc)
              /\ ComputesDropFromLastBuy(d)) => state.lastBuyPrice # 0

\* C21, amended: evaluate_market is total over every state and input, and
\* whenever positionSize = 0 or avgCost = 0 the ROI used is 0 and the
\* defensive branch is taken; when that branch divides by lastBuyPrice = 0
\* the quotient decides the outcome: HOLD for a currentPrice >= 0 and BUY
\* for a negative one.
C21_TotalWithGuardedRoi ==
    \A p \in AnyPrices, m \in AllMA20s, d \in AllDates, dc \in AllDailyChanges :
        /\ TotalAt(p, m, d, dc)
        /\ (state.logicStatus /\ ~IsBlackSwanDrop(dc) /\ RoiGuarded
              /\ ComputesDropFromLastBuy(d) /\ state.lastBuyPrice = 0) =>
                 Eval(p, m, d, dc).signal.action = IF p < 0 THEN "BUY" ELSE "HOLD"

\* A loaded state with an open position, avgCost = 0, pyramidLevel >= 1
\* and lastBuyPrice = 0: evaluate_market has returned the HOLD of the
\* defensive branch.
C21_Witness ==
    /\ lastOp = "evaluate_market"
    /\ state.positionSize > 0
    /\ state.avgCost = Zero
    /\ state.pyramidLevel >= 1
    /\ state.lastBuyPrice = 0
    /\ signal.action = "HOLD"
    /\ signal.reason.kind = "wait_drop"
    /\ signal.roi = Zero

\* evaluate_market(p, ..., dc) moves peakPrice: the thesis holds, no
\* black-swan drop applies, a position is open and p is above the peak.
MovesPeak(p, dc) ==
    /\ state.logicStatus
    /\ ~IsBlackSwanDrop(dc)
    /\ state.positionSize > 0
    /\ p > state.peakPrice

\* C22: evaluate_market is advisory: the state after the call is the state
\* before it, except that peakPrice is currentPrice when logicStatus is
\* true, no black-swan drop applies, positionSize > 0 and currentPrice >
\* peakPrice; so peakPrice never decreases, the other fields keep their
\* values, and the operationHistory array keeps its records.
C22_Advisory ==
    /\ [](\A p \in AnyPrices, m \in AllMA20s, d \in AllDates, dc \in AllDailyChanges :
             LET r == Eval(p, m, d, dc)
             IN /\ r.state = IF MovesPeak(p, dc)
                             THEN [state EXCEPT !.peakPrice = p]
                             ELSE state
                /\ r.state.peakPrice >= state.peakPrice)
    /\ [][lastOp' = "evaluate_market" =>
             /\ arrays' = arrays
             /\ state'.operationHistory = state.operationHistory
             /\ state'.peakPrice >= state.peakPrice
             /\ [state' EXCEPT !.peakPrice = 0] = [state EXCEPT !.peakPrice = 0]]_vars

\* evaluate_market has moved the peak of a loaded open position to the
\* price 120 it was called with.
C22_Witness ==
    /\ lastOp = "evaluate_market"
    /\ state.logicStatus
    /\ state.positionSize > 0
    /\ state.peakPrice = 120

----------------------------------------------------------------------------
(* Properties of the runs of the signal-following host.                    *)

\* The BUY records of h after its last record that closed the position.
RECURSIVE BuysSinceClose(_)
BuysSinceClose(h) ==
    IF h = <<>> THEN 0
    ELSE LET op == h[Len(h)]
         IN IF op.positionAfter = 0 THEN 0
            ELSE BuysSinceClose(SubSeq(h, 1, Len(h) - 1))
                    + (IF op.action = "BUY" THEN 1 ELSE 0)

\* The prices of AllPrices and one more than 20% below the lowest price the
\* host buys at, at which a fifth level would trigger.
DeepPrices == AllPrices \cup {50}

\* The units bought on the move to level 1, 2, 3, 4.
BuySchedule == <<2, 2, 3, 3>>

\* C23: evaluate_market never returns BUY when pyramidLevel = 4; every BUY
\* signal is returned at a level L < 4 and carries pyramidLevel L + 1 and
\* the units of the schedule for level L + 1; so the host that executes
\* signalled trades has executed L, and at most four, BUY signals since the
\* position was last flat.
C23_NoBuyWhenFull ==
    /\ \A p \in DeepPrices, m \in AllMA20s, d \in AllDates, dc \in DailyChanges :
          LET r == Eval(p, m, d, dc)
          IN r.signal.action = "BUY" =>
                /\ state.pyramidLevel < 4
                /\ r.signal.pyramidLevel = state.pyramidLevel + 1
                /\ r.signal.shares = BuySchedule[state.pyramidLevel + 1]
    /\ BuysSinceClose(history) = state.pyramidLevel
    /\ BuysSinceClose(history) <= 4

\* Four BUY signals were executed since the position was opened, and
\* evaluate_market, past the cooldown, has returned the HOLD of a full
\* pyramid.
C23_Witness ==
    /\ state.pyramidLevel = 4
    /\ BuysSinceClose(history) = 4
    /\ signal.action = "HOLD"
    /\ signal.reason.kind = "full"
    /\ ~executed

\* The implied ROI of a record, (price - avgCost) / avgCost against the
\* current avgCost, is within 1 percentage point of T percent.
NearTier(op, T) ==
    LET num == op.price * state.avgCost[2] - state.avgCost[1]
        den == state.avgCost[1]
    IN /\ 100 * num >= (T - 1) * den
       /\ 100 * num <= (T + 1) * den

\* The tiers the records of h mark as executed when a SELL record marks
\* the tier whose threshold its implied ROI is within 1 point of, and no
\* other record marks any.
RECURSIVE MarkedNearTiers(_)
MarkedNearTiers(h) ==
    IF h = <<>> THEN <<>>
    ELSE LET op == Head(h)
             near == {T \in {15, 30, 50} : NearTier(op, T)}
         IN (IF op.action = "SELL" /\ near # {}
             THEN <<CHOOSE T \in near : TRUE>> ELSE <<>>)
               \o MarkedNearTiers(Tail(h))

\* C24: with a position open, the tiers getExecutedProfitTakingLevels
\* reports are those of the SELL records whose implied ROI is within 1
\* percentage point of a tier's threshold, each marking that tier only;
\* SELL_ALL and BUY records mark none.
C24_MarksNearTierOnly ==
    (state.positionSize > 0 /\ state.avgCost # Zero) =>
        getExecutedProfitTakingLevels(state, history) = MarkedNearTiers(history)

\* The SELL records of h after its last record that closed the position.
RECURSIVE SellsSinceClose(_)
SellsSinceClose(h) ==
    IF h = <<>> THEN 0
    ELSE LET op == h[Len(h)]
         IN IF op.positionAfter = 0 THEN 0
            ELSE SellsSinceClose(SubSeq(h, 1, Len(h) - 1))
                    + (IF op.action = "SELL" THEN 1 ELSE 0)

\* The cumulative target position of level 0..4.
CumulativeTarget(level) == <<0, 20, 40, 70, 100>>[level + 1]

\* C25: in a run in which the host executes only signalled trades with the
\* signalled share counts, positionSize never exceeds the cumulative target
\* of the current pyramidLevel and equals it while no SELL was executed
\* since the position was opened; and every BUY the engine signals fits
\* under 100, so the clamp of executeBuy is not exercised.
C25_PositionWithinTarget ==
    /\ state.positionSize <= CumulativeTarget(state.pyramidLevel)
    /\ SellsSinceClose(history) = 0 =>
          state.positionSize = CumulativeTarget(state.pyramidLevel)
    /\ \A p \in AllPrices, m \in PyramidMA20s, d \in AllDates :
          LET r == Eval(p, m, d, Null)
          IN r.signal.action = "BUY" =>
                r.state.positionSize + 10 * r.signal.shares <= 100

\* The fourth BUY of a lifetime without a SELL was executed: the position
\* is at 100, the target of level 4.
C25_Witness ==
    /\ signal.action = "BUY"
    /\ executed
    /\ state.pyramidLevel = 4
    /\ state.positionSize = 100
    /\ SellsSinceClose(history) = 0

\* C26: whether or not the thesis holds, every SELL signal has
\* 1 <= shares <= positionSize / 10 and every SELL_ALL signal has
\* shares = positionSize / 10, so executeSell with the signalled shares
\* subtracts them without reaching its floor at 0; and a SELL or SELL_ALL
\* with shares > 0 is returned only when positionSize > 0.
C26_SignalledSaleFits ==
    \A s \in {state, setLogicStatus(state, FALSE)} :
        \A p \in AllPrices, m \in AllMA20s, d \in PyramidDates, dc \in DailyChanges :
            LET r == evaluate_market(s, history, p, m, d, dc)
                sold == executeSell(r.state, history, r.signal.shares, p, d)
            IN /\ r.signal.action = "SELL" =>
                     /\ r.signal.shares >= 1
                     /\ 10 * r.signal.shares <= s.positionSize
               /\ r.signal.action = "SELL_ALL" =>
                     10 * r.signal.shares = s.positionSize
               /\ r.signal.action \in {"SELL", "SELL_ALL"} =>
                     /\ r.signal.shares > 0 => s.positionSize > 0
                     /\ sold.state.positionSize
                           = s.positionSize - 10 * r.signal.shares

\* A SELL signal for the whole of a position of 10 was executed: the sale
\* took positionSize to exactly 0.
C26_Witness ==
    /\ signal.action = "SELL"
    /\ signal.shares = 1
    /\ executed
    /\ state.positionSize = 0
    /\ Len(history) >= 2
    /\ history[Len(history) - 1].positionAfter = 10

\* currentPrice p is above avgCost.
AboveCost(p) == p * state.avgCost[2] > state.avgCost[1]

\* C27: while logicStatus is true, evaluate_market returns SELL or SELL_ALL
\* only when positionSize > 0 and currentPrice > avgCost; at a currentPrice
\* at or below avgCost the result is BUY, HOLD or WAIT, however far the
\* price is below peakPrice.
C27_NoSaleAtOrBelowCost ==
    state.logicStatus =>
        \A p \in AnyPrices, m \in AllMA20s, d \in AllDates, dc \in AllDailyChanges :
            LET r == Eval(p, m, d, dc)
            IN /\ r.signal.action \in {"SELL", "SELL_ALL"} =>
                     (state.positionSize > 0 /\ AboveCost(p))
               /\ ~AboveCost(p) => r.signal.action \in {"BUY", "HOLD", "WAIT"}

\* A loaded position with cost 100 and peak 130 was evaluated at 80, more
\* than 8% below the peak: the result is the defensive branch's.
C27_Witness ==
    /\ lastOp = "evaluate_market"
    /\ state.logicStatus
    /\ state.positionSize > 0
    /\ state.avgCost = <<100, 1>>
    /\ state.peakPrice = 130
    /\ signal.action \in {"BUY", "HOLD"}
    /\ signal.reason.kind \in {"add", "wait_drop", "full", "cooldown", "open"}

----------------------------------------------------------------------------
(* Properties of two engines and the state object between them.            *)

\* The step is a call on the second engine.
CallOnCopy == pending # <<>> /\ pending' = Tail(pending)

\* The step is a call on the first engine, made while there is a second.
CallOnOriginal == copy # <<>> /\ Len(pending') > Len(pending)

\* C28: with a second engine created from a state object the host keeps,
\* a call on one engine changes neither the other engine's state, its
\* operationHistory included, nor the host's state object: each engine's
\* operationHistory grows only by its own execute calls.
C28_EnginesIndependent ==
    [][/\ CallOnCopy =>
             /\ state' = state
             /\ arrays'[state.operationHistory] = arrays[state.operationHistory]
             /\ arrays'[snapshot[1].operationHistory] = arrays[snapshot[1].operationHistory]
       /\ CallOnOriginal =>
             /\ copy' = copy
             /\ arrays'[copy[1].operationHistory] = arrays[copy[1].operationHistory]
             /\ arrays'[snapshot[1].operationHistory] = arrays[snapshot[1].operationHistory]
      ]_vars

----------------------------------------------------------------------------
(* Properties of a position opened after a full close.                     *)

\* A position is open, the operationHistory holds a record that closed an
\* earlier position, and no SELL was executed since this one was opened.
ReopenedUnsold ==
    /\ state.positionSize > 0
    /\ \E i \in 1..Len(history) : history[i].positionAfter = 0
    /\ SellsSinceClose(history) = 0

\* The ROI at price p is 15% or more.
RoiAtLeast15(p) ==
    100 * (p * state.avgCost[2] - state.avgCost[1]) >= 15 * state.avgCost[1]

\* C29: profit-taking tiers are per position lifetime: on a position
\* opened after a full close and with no SELL of its own, the SELL records
\* of earlier lifetimes do not count, so an evaluation with ROI >= 15%,
\* drawdown below 8% and currentPrice >= ma20 returns SELL for the 15% tier.
C29_TiersPerLifetime ==
    (state.logicStatus /\ ReopenedUnsold) =>
        \A p \in Prices, m \in PyramidMA20s, d \in PyramidDates :
            (RoiAtLeast15(p) /\ ~StopAt(p) /\ p >= m) =>
                LET r == Eval(p, m, d, Null)
                IN /\ r.signal.action = "SELL"
                   /\ r.signal.tier = 15

----------------------------------------------------------------------------
(* Properties of the JSONP fetchFundInfo.                                  *)

\* C30: fetchFundInfo serialises requests: a task has its script and its
\* window.jsonpgz handler installed only when the task of every earlier
\* call has settled; and under every interleaving of script responses,
\* load errors and timeouts each task is resolved at most once, with the
\* data delivered for its own fund code, the fallback's result or null.
C30_SerialisedOwnData ==
    \A i \in 1..Len(tasks) :
        /\ tasks[i].phase # "queued" =>
              \A j \in 1..(i - 1) : tasks[j].phase = "settled"
        /\ tasks[i].resolves <= 1
        /\ tasks[i].value # <<>> => tasks[i].value[1] \in {"null", tasks[i].code}

====
